---------------------------- MODULE Spec2Model ----------------------------
(***************************************************************************)
(* The re-timing engine of tool-stopmotion: frame sampling, the two hold   *)
(* render policies of StopMotionVideoProcessor and the timeline render of  *)
(* TimelineProcessor.  One call runs at a time (the pipeline is single-    *)
(* threaded and synchronous).  A frame's pixel data is identified by the   *)
(* frame's source index.                                                   *)
(*                                                                         *)
(* cv2 is modelled by what the code relies on: VideoCapture.read() returns *)
(* a frame while the cursor is below the number of readable frames and     *)
(* advances the cursor; VideoCapture on a missing or undecodable file is   *)
(* not opened; VideoWriter never raises: when it could not be opened its   *)
(* write() is a silent no-op; CAP_PROP_FRAME_COUNT is the number of        *)
(* readable frames.  Frame rates and durations are Python floats in the    *)
(* code and exact rationals <<numerator, denominator>> here.               *)
(***************************************************************************)
EXTENDS Integers, Sequences, FiniteSets, TLC

\* ------------------------------------------------------------- bounds
MaxFrames == 5
MaxFactor == 3
MaxEntries == 2
MaxUploads == 2

\* the smallest reduction factor tried: 0 and a negative one are inputs
\* the code accepts (no validation in app.py or the engine)
FactorValues == (-1) .. MaxFactor
FrameCounts == 0 .. MaxFrames
FpsValues == {0, 24, 30}
HoldValues == {-1, 0, 1, 2}
\* render_custom_timing: sources of 0, 1 or 2 frames, seek targets 0 and 1
RenderFrameCounts == {0, 1, 2}
SeekTargets == {0, 1}

\* ------------------------------------------------------------ helpers
Abs(n) == IF n < 0 THEN -n ELSE n

Max(a, b) == IF a >= b THEN a ELSE b

RECURSIVE GCD(_, _)
GCD(a, b) == IF b = 0 THEN a ELSE GCD(b, a % b)

\* the rational n/d in lowest terms with a positive denominator (d # 0)
Frac(n, d) ==
    LET g == GCD(Abs(n), Abs(d))
        s == IF d < 0 THEN -1 ELSE 1
    IN  << (s * n) \div g, (s * d) \div g >>

\* Python's true division a / b on rationals (b # 0)
RDiv(a, b) == Frac(a[1] * b[2], a[2] * b[1])

Rat(n) == << n, 1 >>

\* Python's a % b for a >= 0 and b # 0: the result has the sign of b
PyMod(a, b) == IF b > 0 THEN a % b ELSE -((-a) % (-b))

\* ceil(n / r) for n >= 0, r >= 1
CeilDiv(n, r) == (n + r - 1) \div r

\* len(range(n))
RangeLen(n) == Max(n, 0)

\* --------------------------------------------------------------- state
VARIABLES
    call,               \* the running call: operation, arguments, environment
    pc,                 \* "idle" | "loop" | "done" | "raised" | "serving"
    handles,            \* stream handles opened and not yet released
    opened,             \* every stream handle the call has opened
    dirCreated,         \* os.makedirs ran on the output directory
    frame_count,        \* frames read so far (the loop counter)
    kept,               \* source indices selected so far, in order
    kept_frames,        \* kept_frames / selected_frames / extracted_count
    written,            \* the out.write calls so far, in order
    enhanced,           \* source indices passed to enhance_frame_for_stop_motion
    output_frame_count, \* output_frame_count / total_output_frames
    writer_fps,         \* the frame rate the VideoWriter was created with
    frames_data,        \* extract_frames_with_metadata: the entries built
    timeline,           \* render_custom_timing: entries of frames_data consumed
    result,             \* the dictionary returned
    error,              \* the exception raised, "none" if none
    config_file,        \* the JSON document at the timeline config path
    uploads,            \* app.py: the source stored in uploads/ per file_id
    issued,             \* app.py: how many file_ids uuid4 has handed out
    response            \* app.py: the answer to the latest request

vars == << call, pc, handles, opened, dirCreated, frame_count, kept,
           kept_frames, written, enhanced, output_frame_count, writer_fps,
           frames_data, timeline, result, error, config_file, uploads,
           issued, response >>

NoRate == << 0, 0 >>

NoResult == [success |-> FALSE]

\* the file_ids the web application can hand out
FileIds == 1 .. MaxUploads

\* no file in uploads/ starts with this file_id
NoUpload == [input |-> "none", frames |-> 0, fps |-> 0]

\* no request was answered yet
NoResponse ==
    [endpoint |-> "none", file_id |-> 0, status |-> 0, raised |-> "none",
     found |-> FALSE, output |-> FALSE]

\* no document at the config path
NoFile == [version |-> "", frames |-> << >>, created_at |-> ""]

NoCall ==
    [op |-> "none", input |-> "ok", frames |-> 0, fps |-> 0,
     frame_reduction_factor |-> 1, maintain_duration |-> FALSE,
     has_dir |-> TRUE, has_frames_key |-> TRUE,
     writer_opens |-> TRUE, out_exists |-> TRUE]

Init ==
    /\ call = NoCall
    /\ pc = "idle"
    /\ handles = {}
    /\ opened = {}
    /\ dirCreated = FALSE
    /\ frame_count = 0
    /\ kept = << >>
    /\ kept_frames = 0
    /\ written = << >>
    /\ enhanced = << >>
    /\ output_frame_count = 0
    /\ writer_fps = NoRate
    /\ frames_data = << >>
    /\ timeline = << >>
    /\ result = NoResult
    /\ error = "none"
    /\ config_file = NoFile
    /\ uploads = [id \in FileIds |-> NoUpload]
    /\ issued = 0
    /\ response = NoResponse

\* the sources a call can be given: a missing file, a file cv2 cannot
\* open, or a video of some frames at some rate
Sources ==
    {[input |-> "missing", frames |-> 0, fps |-> 0],
     [input |-> "unopenable", frames |-> 0, fps |-> 0]}
    \cup {[input |-> "ok", frames |-> n, fps |-> f] :
             n \in FrameCounts, f \in FpsValues}

\* the writer either opens (the file then exists) or does not (a stale or
\* empty file may or may not be at the output path)
WriterOutcomes ==
    {[writer_opens |-> TRUE, out_exists |-> TRUE],
     [writer_opens |-> FALSE, out_exists |-> TRUE],
     [writer_opens |-> FALSE, out_exists |-> FALSE]}

\* the frames that reached the output stream
OutStream == IF call.writer_opens THEN written ELSE << >>

\* ------------------------------------------------- shared state updates
\* the call ends by raising `err` with `leak` still open
Raise(c, err, everOpened, leak, dir) ==
    /\ call' = c
    /\ pc' = "raised"
    /\ error' = err
    /\ opened' = everOpened
    /\ handles' = leak
    /\ dirCreated' = dir
    /\ UNCHANGED << frame_count, kept, kept_frames, written, enhanced,
                    output_frame_count, writer_fps, frames_data, timeline,
                    result >>

\* ------------------------------------------------------ get_video_info
\* what get_video_info does on a source: "ValueError" (not opened),
\* "ZeroDivisionError" (frame count / 0.0, before cap.release()), or "ok"
InfoOutcome(s) ==
    IF s.input # "ok" THEN "ValueError"
    ELSE IF s.fps = 0 THEN "ZeroDivisionError"
    ELSE "ok"

\* the handle get_video_info leaves open when it ends with `outcome`
InfoLeak(outcome) == IF outcome = "ZeroDivisionError" THEN {"info"} ELSE {}

\* the handles get_video_info opened
InfoOpened(outcome) == IF outcome = "ValueError" THEN {} ELSE {"info"}

VideoInfo(s) ==
    [success |-> TRUE, fps |-> Rat(s.fps), frame_count |-> s.frames,
     duration |-> Frac(s.frames, s.fps)]

GetVideoInfo ==
    /\ pc = "idle"
    /\ \E s \in Sources :
        LET c == [NoCall EXCEPT !.op = "get_video_info", !.input = s.input,
                                !.frames = s.frames, !.fps = s.fps]
            o == InfoOutcome(s)
        IN  IF o # "ok"
            THEN Raise(c, o, InfoOpened(o), InfoLeak(o), FALSE)
            ELSE /\ call' = c
                 /\ pc' = "done"
                 /\ opened' = {"info"}
                 /\ handles' = {}
                 /\ result' = VideoInfo(s)
                 /\ UNCHANGED << dirCreated, frame_count, kept, kept_frames,
                                 written, enhanced, output_frame_count,
                                 writer_fps, frames_data, timeline, error >>
    /\ UNCHANGED << config_file, uploads, issued, response >>

\* ------------------------------------------------------ frame sampling
\* a sampling test that is off by one: keeps the last frame of each group
IsKept_OffByOne(i, r) == PyMod(i + 1, r) = 0

\* frame_count % frame_reduction_factor == 0   (r # 0)
IsKept(i, r) == PyMod(i, r) = 0

\* a writer created with the source rate in place of the reduced one
ReducedFps_Unreduced(fps, r) == Rat(fps)

\* original_fps / frame_reduction_factor   (r # 0)
ReducedFps(fps, r) == RDiv(Rat(fps), Rat(r))

\* a hold loop that is one write short
WriteCopies_OneShort(seq, w, n) == seq \o [i \in 1 .. n - 1 |-> w]

\* seq followed by n copies of w: n consecutive out.write(w) calls
WriteCopies(seq, w, n) == seq \o [i \in 1 .. n |-> w]

\* one out.write call: the frame written, whether it went through
\* enhance_frame_for_stop_motion, and the ordinal of the selected frame or
\* timeline entry it came from
Written(frame, enh, ordinal) ==
    [src |-> frame, enhanced |-> enh, entry |-> ordinal]

\* ------------------------------------------------------- reduce_frames
ReduceFramesBegin ==
    /\ pc = "idle"
    /\ \E s \in Sources, r \in FactorValues, d \in BOOLEAN,
          w \in WriterOutcomes :
        LET c == [NoCall EXCEPT !.op = "reduce_frames", !.input = s.input,
                                !.frames = s.frames, !.fps = s.fps,
                                !.frame_reduction_factor = r, !.has_dir = d,
                                !.writer_opens = w.writer_opens,
                                !.out_exists = w.out_exists]
            o == InfoOutcome(s)
        IN  IF s.input = "missing"
            THEN Raise(c, "FileNotFoundError", {}, {}, FALSE)
            ELSE IF o # "ok"
            THEN Raise(c, o, InfoOpened(o), InfoLeak(o), FALSE)
            ELSE IF r = 0
            THEN Raise(c, "ZeroDivisionError", {"info"}, {}, FALSE)
            ELSE IF ~d
            THEN Raise(c, "FileNotFoundError", {"info", "cap"}, {"cap"}, FALSE)
            ELSE /\ call' = c
                 /\ pc' = "loop"
                 /\ opened' = {"info", "cap", "out"}
                 /\ handles' = {"cap", "out"}
                 /\ dirCreated' = TRUE
                 /\ writer_fps' = ReducedFps(s.fps, r)
                 /\ UNCHANGED << frame_count, kept, kept_frames, written,
                                 enhanced, output_frame_count, frames_data,
                                 timeline, result, error >>
    /\ UNCHANGED << config_file, uploads, issued, response >>

ReduceFramesIterate ==
    /\ pc = "loop"
    /\ call.op = "reduce_frames"
    /\ frame_count < call.frames
    /\ IF IsKept(frame_count, call.frame_reduction_factor)
       THEN /\ enhanced' = Append(enhanced, frame_count)
            /\ written' = Append(written,
                                 Written(frame_count, TRUE, kept_frames + 1))
            /\ kept' = Append(kept, frame_count)
            /\ kept_frames' = kept_frames + 1
       ELSE UNCHANGED << enhanced, written, kept, kept_frames >>
    /\ frame_count' = frame_count + 1
    /\ UNCHANGED << call, pc, handles, opened, dirCreated, output_frame_count,
                    writer_fps, frames_data, timeline, result, error >>
    /\ UNCHANGED << config_file, uploads, issued, response >>

ReduceFramesResult ==
    [success |-> TRUE,
     original_fps |-> Rat(call.fps),
     new_fps |-> writer_fps,
     original_frames |-> call.frames,
     kept_frames |-> kept_frames,
     reduction_factor |-> call.frame_reduction_factor,
     original_duration |-> Frac(call.frames, call.fps),
     new_duration |-> RDiv(Rat(kept_frames), writer_fps)]

\* cap.read() finds no frame: break, finally, the results
ReduceFramesFinish ==
    /\ pc = "loop"
    /\ call.op = "reduce_frames"
    /\ frame_count >= call.frames
    /\ handles' = {}
    /\ IF ~call.out_exists
       THEN /\ pc' = "raised"
            /\ error' = "FileNotFoundError"
            /\ UNCHANGED result
       ELSE /\ pc' = "done"
            /\ result' = ReduceFramesResult
            /\ UNCHANGED error
    /\ UNCHANGED << call, opened, dirCreated, frame_count, kept, kept_frames,
                    written, enhanced, output_frame_count, writer_fps,
                    frames_data, timeline >>
    /\ UNCHANGED << config_file, uploads, issued, response >>

\* --------------------------------------------- reduce_frames_authentic
\* output_fps: the original rate when the duration is maintained, the
\* reduced rate otherwise
AuthenticOutputFps(fps, r, maintain) ==
    IF maintain THEN Rat(fps) ELSE ReducedFps(fps, r)

\* a selected frame written once, whatever the policy
AuthenticCopies_Once(r, maintain) == 1

\* how many times a selected frame is written
AuthenticCopies(r, maintain) == IF maintain THEN RangeLen(r) ELSE 1

AuthenticBegin ==
    /\ pc = "idle"
    /\ \E s \in Sources, r \in FactorValues, m \in BOOLEAN, d \in BOOLEAN,
          w \in WriterOutcomes :
        LET c == [NoCall EXCEPT !.op = "reduce_frames_authentic",
                                !.input = s.input, !.frames = s.frames,
                                !.fps = s.fps, !.frame_reduction_factor = r,
                                !.maintain_duration = m, !.has_dir = d,
                                !.writer_opens = w.writer_opens,
                                !.out_exists = w.out_exists]
            o == InfoOutcome(s)
        IN  IF s.input = "missing"
            THEN Raise(c, "FileNotFoundError", {}, {}, FALSE)
            ELSE IF o # "ok"
            THEN Raise(c, o, InfoOpened(o), InfoLeak(o), FALSE)
            ELSE IF ~m /\ r = 0
            THEN Raise(c, "ZeroDivisionError", {"info"}, {}, FALSE)
            ELSE IF ~d
            THEN Raise(c, "FileNotFoundError", {"info", "cap"}, {"cap"}, FALSE)
            ELSE /\ call' = c
                 /\ pc' = "loop"
                 /\ opened' = {"info", "cap", "out"}
                 /\ handles' = {"cap", "out"}
                 /\ dirCreated' = TRUE
                 /\ writer_fps' = AuthenticOutputFps(s.fps, r, m)
                 /\ UNCHANGED << frame_count, kept, kept_frames, written,
                                 enhanced, output_frame_count, frames_data,
                                 timeline, result, error >>
    /\ UNCHANGED << config_file, uploads, issued, response >>

AuthenticIterate ==
    /\ pc = "loop"
    /\ call.op = "reduce_frames_authentic"
    /\ frame_count < call.frames
    /\ IF call.frame_reduction_factor = 0
       THEN \* frame_count % 0 raises inside the try: finally releases both
            /\ pc' = "raised"
            /\ error' = "ZeroDivisionError"
            /\ handles' = {}
            /\ UNCHANGED << frame_count, kept, kept_frames, written, enhanced,
                            output_frame_count >>
       ELSE /\ IF IsKept(frame_count, call.frame_reduction_factor)
               THEN LET n == AuthenticCopies(call.frame_reduction_factor,
                                             call.maintain_duration)
                    IN  /\ enhanced' = Append(enhanced, frame_count)
                        /\ written' =
                              WriteCopies(written,
                                          Written(frame_count, TRUE,
                                                  kept_frames + 1), n)
                        /\ output_frame_count' = output_frame_count + n
                        /\ kept' = Append(kept, frame_count)
                        /\ kept_frames' = kept_frames + 1
               ELSE UNCHANGED << enhanced, written, output_frame_count, kept,
                                 kept_frames >>
            /\ frame_count' = frame_count + 1
            /\ UNCHANGED << pc, error, handles >>
    /\ UNCHANGED << call, opened, dirCreated, writer_fps, frames_data,
                    timeline, result >>
    /\ UNCHANGED << config_file, uploads, issued, response >>

\* an effective rate that is always the container rate
EffectiveFps_ContainerRate(selected, new_duration, output_fps, maintain) ==
    output_fps

\* effective_fps: the selected frames over the duration when the duration
\* is maintained, the output rate otherwise
EffectiveFps(selected, new_duration, output_fps, maintain) ==
    IF maintain THEN RDiv(Rat(selected), new_duration) ELSE output_fps

AuthenticResult ==
    LET original_duration == Frac(call.frames, call.fps)
        new_duration ==
            IF call.maintain_duration THEN original_duration
            ELSE RDiv(Rat(output_frame_count), writer_fps)
        effective_fps ==
            EffectiveFps(kept_frames, new_duration, writer_fps,
                         call.maintain_duration)
    IN  [success |-> TRUE,
         original_fps |-> Rat(call.fps),
         new_fps |-> effective_fps,
         output_fps |-> writer_fps,
         original_frames |-> call.frames,
         kept_frames |-> kept_frames,
         output_frames |-> output_frame_count,
         reduction_factor |-> call.frame_reduction_factor,
         original_duration |-> original_duration,
         new_duration |-> new_duration,
         maintain_duration |-> call.maintain_duration]

AuthenticFinish ==
    /\ pc = "loop"
    /\ call.op = "reduce_frames_authentic"
    /\ frame_count >= call.frames
    /\ handles' = {}
    /\ IF call.maintain_duration /\ call.frames = 0
       THEN \* selected_frames / new_duration with a duration of 0.0
            /\ pc' = "raised"
            /\ error' = "ZeroDivisionError"
            /\ UNCHANGED result
       ELSE IF ~call.out_exists
       THEN /\ pc' = "raised"
            /\ error' = "FileNotFoundError"
            /\ UNCHANGED result
       ELSE /\ pc' = "done"
            /\ result' = AuthenticResult
            /\ UNCHANGED error
    /\ UNCHANGED << call, opened, dirCreated, frame_count, kept, kept_frames,
                    written, enhanced, output_frame_count, writer_fps,
                    frames_data, timeline >>
    /\ UNCHANGED << config_file, uploads, issued, response >>

\* ---------------------------------------- extract_frames_with_metadata
\* entries numbered from one
FrameData_IndexFromOne(extracted_count, i, fps, r) ==
    [index |-> extracted_count + 1,
     original_frame |-> i,
     timestamp |-> Frac(i, fps),
     hold_duration |-> r,
     selected |-> TRUE]

\* the frame_data dictionary of one extracted frame (the thumbnail, a
\* picture of the frame, is left out)
FrameData(extracted_count, i, fps, r) ==
    [index |-> extracted_count,
     original_frame |-> i,
     timestamp |-> Frac(i, fps),
     hold_duration |-> r,
     selected |-> TRUE]

\* a sum that leaves the deselected entries out
RECURSIVE SumHold_SelectedOnly(_)
SumHold_SelectedOnly(fd) ==
    IF fd = << >> THEN 0
    ELSE (IF fd[1].selected THEN fd[1].hold_duration ELSE 0)
            + SumHold_SelectedOnly(Tail(fd))

\* sum(frame['hold_duration'] for frame in frames_data)
RECURSIVE SumHold(_)
SumHold(fd) ==
    IF fd = << >> THEN 0 ELSE fd[1].hold_duration + SumHold(Tail(fd))

DefaultHold == 2

\* _generate_timeline_data
GenerateTimelineData(fd) ==
    [total_frames |-> Len(fd),
     total_hold_duration |-> SumHold(fd),
     default_hold |-> IF fd # << >> THEN fd[1].hold_duration ELSE DefaultHold]

ExtractBegin ==
    /\ pc = "idle"
    /\ \E s \in Sources, r \in FactorValues :
        LET c == [NoCall EXCEPT !.op = "extract_frames_with_metadata",
                                !.input = s.input, !.frames = s.frames,
                                !.fps = s.fps, !.frame_reduction_factor = r]
        IN  IF s.input = "missing"
            THEN Raise(c, "FileNotFoundError", {}, {}, FALSE)
            ELSE IF s.input # "ok"
            THEN Raise(c, "ValueError", {}, {}, FALSE)
            ELSE IF s.fps = 0
            THEN \* total_frames / fps, before the try
                 Raise(c, "ZeroDivisionError", {"cap"}, {"cap"}, FALSE)
            ELSE /\ call' = c
                 /\ pc' = "loop"
                 /\ opened' = {"cap"}
                 /\ handles' = {"cap"}
                 /\ UNCHANGED << dirCreated, frame_count, kept, kept_frames,
                                 written, enhanced, output_frame_count,
                                 writer_fps, frames_data, timeline, result,
                                 error >>
    /\ UNCHANGED << config_file, uploads, issued, response >>

ExtractIterate ==
    /\ pc = "loop"
    /\ call.op = "extract_frames_with_metadata"
    /\ frame_count < call.frames
    /\ IF call.frame_reduction_factor = 0
       THEN /\ pc' = "raised"
            /\ error' = "ZeroDivisionError"
            /\ handles' = {}
            /\ UNCHANGED << frame_count, kept, kept_frames, frames_data >>
       ELSE /\ IF IsKept(frame_count, call.frame_reduction_factor)
               THEN /\ frames_data' =
                          Append(frames_data,
                                 FrameData(kept_frames, frame_count, call.fps,
                                           call.frame_reduction_factor))
                    /\ kept' = Append(kept, frame_count)
                    /\ kept_frames' = kept_frames + 1
               ELSE UNCHANGED << frames_data, kept, kept_frames >>
            /\ frame_count' = frame_count + 1
            /\ UNCHANGED << pc, error, handles >>
    /\ UNCHANGED << call, opened, dirCreated, written, enhanced,
                    output_frame_count, writer_fps, timeline, result >>
    /\ UNCHANGED << config_file, uploads, issued, response >>

ExtractResult ==
    [success |-> TRUE,
     fps |-> Rat(call.fps),
     total_frames |-> call.frames,
     duration |-> Frac(call.frames, call.fps),
     extracted_frames |-> kept_frames,
     reduction_factor |-> call.frame_reduction_factor,
     frames |-> frames_data,
     timeline_data |-> GenerateTimelineData(frames_data)]

ExtractFinish ==
    /\ pc = "loop"
    /\ call.op = "extract_frames_with_metadata"
    /\ frame_count >= call.frames
    /\ handles' = {}
    /\ pc' = "done"
    /\ result' = ExtractResult
    /\ UNCHANGED << call, opened, dirCreated, frame_count, kept, kept_frames,
                    written, enhanced, output_frame_count, writer_fps,
                    frames_data, timeline, error >>
    /\ UNCHANGED << config_file, uploads, issued, response >>

\* ------------------------------------------------ render_custom_timing
\* the entries a caller can put in timeline_config['frames']: the keys
\* 'hold_duration' and 'selected' may be missing (has_hold, has_selected)
Entries ==
    {[original_frame |-> o, has_hold |-> TRUE, hold_duration |-> h,
      has_selected |-> TRUE, selected |-> s] :
         o \in SeekTargets, h \in HoldValues, s \in BOOLEAN}
    \cup {[original_frame |-> o, has_hold |-> FALSE, hold_duration |-> 0,
           has_selected |-> TRUE, selected |-> s] :
             o \in SeekTargets, s \in BOOLEAN}
    \cup {[original_frame |-> o, has_hold |-> TRUE, hold_duration |-> h,
           has_selected |-> FALSE, selected |-> TRUE] :
             o \in SeekTargets, h \in HoldValues}
    \cup {[original_frame |-> o, has_hold |-> FALSE, hold_duration |-> 0,
           has_selected |-> FALSE, selected |-> TRUE] : o \in SeekTargets}

\* a render that ignores the selected flag
EntrySelected_Always(e) == TRUE

\* frame_data.get('selected', True)
EntrySelected(e) == IF e.has_selected THEN e.selected ELSE TRUE

\* a hold that falls back to one frame
HoldOf_DefaultOne(e) == IF e.has_hold THEN e.hold_duration ELSE 1

\* frame_data.get('hold_duration', 2)
HoldOf(e) == IF e.has_hold THEN e.hold_duration ELSE DefaultHold

\* a read that still returns a frame one position past the end
SeekRead_PastEnd(n, frames) == 0 <= n /\ n <= frames

\* cap.set(CAP_PROP_POS_FRAMES, n); cap.read() returns a frame
SeekRead(n, frames) == 0 <= n /\ n < frames

\* what the entry at position `ordinal` of the timeline adds to the output
RenderEntry(e, ordinal, frames) ==
    IF ~EntrySelected(e) THEN << >>
    ELSE IF ~SeekRead(e.original_frame, frames) THEN << >>
    ELSE WriteCopies(<< >>, Written(e.original_frame, FALSE, ordinal),
                     RangeLen(HoldOf(e)))

RenderBegin ==
    /\ pc = "idle"
    /\ \E i \in {"missing", "unopenable", "ok"}, n \in RenderFrameCounts,
          f \in FpsValues, k \in BOOLEAN, w \in BOOLEAN :
        LET c == [NoCall EXCEPT !.op = "render_custom_timing", !.input = i,
                                !.frames = IF i = "ok" THEN n ELSE 0,
                                !.fps = IF i = "ok" THEN f ELSE 0,
                                !.has_frames_key = k,
                                !.writer_opens = w, !.out_exists = w]
        IN  IF i # "ok"
            THEN Raise(c, "ValueError", {}, {}, FALSE)
            ELSE IF ~k
            THEN \* timeline_config['frames'], after both were opened
                 Raise(c, "KeyError", {"cap", "out"}, {"cap", "out"}, FALSE)
            ELSE /\ call' = c
                 /\ pc' = "loop"
                 /\ opened' = {"cap", "out"}
                 /\ handles' = {"cap", "out"}
                 /\ writer_fps' = Rat(f)
                 /\ UNCHANGED << dirCreated, frame_count, kept, kept_frames,
                                 written, enhanced, output_frame_count,
                                 frames_data, timeline, result, error >>
    /\ UNCHANGED << config_file, uploads, issued, response >>

\* one pass of `for frame_data in frames_data`.  The list is read front to
\* back and never looked at again, so the entry is drawn when the loop
\* reaches it: timeline is the part of frames_data consumed so far
RenderIterate ==
    /\ pc = "loop"
    /\ call.op = "render_custom_timing"
    /\ Len(timeline) < MaxEntries
    /\ \E e \in Entries :
        LET w == RenderEntry(e, Len(timeline) + 1, call.frames)
        IN  /\ timeline' = Append(timeline, e)
            /\ written' = written \o w
            /\ output_frame_count' = output_frame_count + Len(w)
    /\ UNCHANGED << call, pc, handles, opened, dirCreated, frame_count, kept,
                    kept_frames, enhanced, writer_fps, frames_data, result,
                    error >>
    /\ UNCHANGED << config_file, uploads, issued, response >>

RenderResult ==
    [success |-> TRUE,
     method |-> "custom_timeline",
     original_frames |-> Len(timeline),
     output_frames |-> output_frame_count,
     output_duration |-> RDiv(Rat(output_frame_count), Rat(call.fps)),
     original_fps |-> Rat(call.fps)]

\* frames_data is exhausted: finally, the results
RenderFinish ==
    /\ pc = "loop"
    /\ call.op = "render_custom_timing"
    /\ handles' = {}
    /\ IF call.fps = 0
       THEN \* total_output_frames / original_fps
            /\ pc' = "raised"
            /\ error' = "ZeroDivisionError"
            /\ UNCHANGED result
       ELSE /\ pc' = "done"
            /\ result' = RenderResult
            /\ UNCHANGED error
    /\ UNCHANGED << call, opened, dirCreated, frame_count, kept, kept_frames,
                    written, enhanced, output_frame_count, writer_fps,
                    frames_data, timeline >>
    /\ UNCHANGED << config_file, uploads, issued, response >>

\* ------------------------------- save_timeline_config, load_timeline_config
\* the values of a timeline entry as Python holds them: an int, a float
\* (its exact value num / den) or a bool
PyInt(n) == [type |-> "int", num |-> n, den |-> 1]

PyFloat(q) == [type |-> "float", num |-> q[1], den |-> q[2]]

PyBool(b) == [type |-> "bool", num |-> IF b THEN 1 ELSE 0, den |-> 1]

\* a frame_data dictionary: its items in insertion order
FrameDict(f) ==
    << << "index", PyInt(f.index) >>,
       << "original_frame", PyInt(f.original_frame) >>,
       << "timestamp", PyFloat(f.timestamp) >>,
       << "hold_duration", PyInt(f.hold_duration) >>,
       << "selected", PyBool(f.selected) >> >>

\* the frames a caller can hand to save_timeline_config: entries as
\* extract_frames_with_metadata builds them, after the editor changed the
\* hold and the selection
EditedFrames ==
    {FrameDict([index |-> i, original_frame |-> o, timestamp |-> Frac(o, f),
                hold_duration |-> h, selected |-> s]) :
        i \in SeekTargets, o \in SeekTargets, f \in FpsValues \ {0},
        h \in HoldValues, s \in BOOLEAN}

\* the lists of at most n entries
RECURSIVE FrameLists(_)
FrameLists(n) ==
    IF n = 0 THEN {<< >>}
    ELSE LET shorter == FrameLists(n - 1)
         IN  shorter \cup {Append(l, e) : l \in {x \in shorter : Len(x) = n - 1},
                                          e \in EditedFrames}

\* the decimal digits of a natural number, most significant first
RECURSIVE Digits(_)
Digits(n) == IF n < 10 THEN << n >> ELSE Append(Digits(n \div 10), n % 10)

\* the number a digit string denotes
RECURSIVE FromDigits(_)
FromDigits(ds) ==
    IF ds = << >> THEN 0
    ELSE 10 * FromDigits(SubSeq(ds, 1, Len(ds) - 1)) + ds[Len(ds)]

\* an encoder that writes a bool as the number 1 or 0
JsonDumps_BoolAsNumber(v) ==
    [lit |-> "number", neg |-> v.num < 0, digits |-> Digits(Abs(v.num)),
     point |-> v.type = "float",
     frac |-> IF v.type = "float" THEN Digits(v.den) ELSE << >>]

\* json.dump of one value: true / false for a bool, digits for an int,
\* digits with a fractional part (repr of the float) for a float
JsonDumps(v) ==
    IF v.type = "bool"
    THEN [lit |-> IF v.num = 1 THEN "true" ELSE "false", neg |-> FALSE,
          digits |-> << >>, point |-> FALSE, frac |-> << >>]
    ELSE [lit |-> "number", neg |-> v.num < 0, digits |-> Digits(Abs(v.num)),
          point |-> v.type = "float",
          frac |-> IF v.type = "float" THEN Digits(v.den) ELSE << >>]

\* json.load of one literal: a number without a fractional part is an
\* int, one with a fractional part a float
JsonLoads(t) ==
    IF t.lit = "true" THEN PyBool(TRUE)
    ELSE IF t.lit = "false" THEN PyBool(FALSE)
    ELSE LET n == FromDigits(t.digits)
             signed == IF t.neg THEN -n ELSE n
         IN  IF t.point THEN PyFloat(<< signed, FromDigits(t.frac) >>)
             ELSE PyInt(signed)

\* the 'frames' member as json.dump writes it: the entries in list order,
\* the items of each entry in insertion order
DumpFrames(fd) ==
    [i \in DOMAIN fd |->
        [k \in DOMAIN fd[i] |-> << fd[i][k][1], JsonDumps(fd[i][k][2]) >>]]

\* the 'frames' member as json.load reads it
LoadFrames(doc) ==
    [i \in DOMAIN doc |->
        [k \in DOMAIN doc[i] |-> << doc[i][k][1], JsonLoads(doc[i][k][2]) >>]]

\* the document save_timeline_config writes: pd is not imported, so
\* created_at is 'unknown'
ConfigDocument(fd) ==
    [version |-> "1.0", frames |-> DumpFrames(fd), created_at |-> "unknown"]

\* save_timeline_config(frames_data, output_path)
SaveTimelineConfig ==
    /\ pc = "idle"
    /\ \E fd \in FrameLists(MaxEntries), d \in BOOLEAN :
        LET c == [NoCall EXCEPT !.op = "save_timeline_config", !.has_dir = d]
        IN  IF ~d
            THEN \* os.makedirs('') on a path without a directory part
                 /\ Raise(c, "FileNotFoundError", {}, {}, FALSE)
                 /\ UNCHANGED config_file
            ELSE /\ call' = c
                 /\ pc' = "done"
                 /\ dirCreated' = TRUE
                 /\ frames_data' = fd
                 /\ config_file' = ConfigDocument(fd)
                 /\ UNCHANGED << handles, opened, frame_count, kept,
                                 kept_frames, written, enhanced,
                                 output_frame_count, writer_fps, timeline,
                                 result, error >>
    /\ UNCHANGED << uploads, issued, response >>

\* load_timeline_config(config_path): on a path nothing was saved to, or
\* on the document the save before it wrote
LoadTimelineConfig ==
    /\ \/ pc = "idle"
       \/ pc = "done" /\ call.op = "save_timeline_config"
    /\ call' = [NoCall EXCEPT !.op = "load_timeline_config"]
    /\ IF config_file = NoFile
       THEN /\ pc' = "raised"
            /\ error' = "FileNotFoundError"
            /\ UNCHANGED result
       ELSE /\ pc' = "done"
            /\ result' = [version |-> config_file.version,
                          frames |-> LoadFrames(config_file.frames),
                          created_at |-> config_file.created_at]
            /\ UNCHANGED error
    /\ UNCHANGED << handles, opened, dirCreated, frame_count, kept,
                    kept_frames, written, enhanced, output_frame_count,
                    writer_fps, frames_data, timeline, config_file,
                    uploads, issued, response >>

\* -------------------------------------------- app.py: timeline endpoints
\* the videos a client can upload: a file cv2 cannot open, or a video of
\* some frames at some rate
UploadedVideos ==
    {[input |-> "unopenable", frames |-> 0, fps |-> 0]}
    \cup {[input |-> "ok", frames |-> n, fps |-> f] :
             n \in RenderFrameCounts, f \in FpsValues}

\* how extract_frames_with_metadata ends on the upload just saved: "ok", or
\* the exception it raises
ExtractCallOutcome(s, r) ==
    IF s.input # "ok" THEN "ValueError"
    ELSE IF s.fps = 0 THEN "ZeroDivisionError"
    ELSE IF r = 0 /\ s.frames > 0 THEN "ZeroDivisionError"
    ELSE "ok"

\* how render_custom_timing ends on a stored upload: "ok", or the
\* exception it raises (k: the config has a 'frames' key); a writer that
\* did not open raises nothing
RenderCallOutcome(s, k) ==
    IF s.input # "ok" THEN "ValueError"
    ELSE IF ~k THEN "KeyError"
    ELSE IF s.fps = 0 THEN "ZeroDivisionError"
    ELSE "ok"

\* the status the endpoint answers with: `except Exception` catches
\* whatever was raised inside the try, an HTTPException included, and
\* raises HTTPException(status_code=500)
StatusOf(raised) == IF raised = "none" THEN 200 ELSE 500

\* uploads/ after /render-custom-timeline: os.remove(input_path) runs only
\* when nothing was raised
UploadsAfterRender(store, id, raised) ==
    IF raised = "none" THEN [store EXCEPT ![id] = NoUpload] ELSE store

\* uploads/ after /extract-frames: the upload is saved, and removed again
\* when anything was raised
UploadsAfterExtract(store, id, s, raised) ==
    IF raised = "none" THEN [store EXCEPT ![id] = s] ELSE store

\* POST /extract-frames
ExtractFramesRequest ==
    /\ pc \in {"idle", "serving"}
    /\ pc' = "serving"
    /\ \/ \* the file name has no supported extension: 400, before the try
          /\ response' = [endpoint |-> "extract-frames", file_id |-> 0,
                          status |-> 400, raised |-> "HTTPException400",
                          found |-> FALSE, output |-> FALSE]
          /\ UNCHANGED << uploads, issued >>
       \/ /\ issued < MaxUploads
          /\ \E s \in UploadedVideos, r \in FactorValues :
                LET id == issued + 1
                    o == ExtractCallOutcome(s, r)
                    raised == IF o = "ok" THEN "none" ELSE o
                IN  /\ issued' = id
                    /\ uploads' = UploadsAfterExtract(uploads, id, s, raised)
                    /\ response' = [endpoint |-> "extract-frames",
                                    file_id |-> id,
                                    status |-> StatusOf(raised),
                                    raised |-> raised, found |-> FALSE,
                                    output |-> FALSE]
    /\ UNCHANGED << call, handles, opened, dirCreated, frame_count, kept,
                    kept_frames, written, enhanced, output_frame_count,
                    writer_fps, frames_data, timeline, result, error,
                    config_file >>

\* POST /render-custom-timeline (j: timeline_data parses, k: it has a
\* 'frames' key, w: the output writer opens, so that the frames written
\* reach the output file)
RenderCustomTimelineRequest ==
    /\ pc \in {"idle", "serving"}
    /\ pc' = "serving"
    /\ \E id \in FileIds, j \in BOOLEAN, k \in BOOLEAN, w \in BOOLEAN :
        LET stored == uploads[id] # NoUpload
            raised ==
                IF ~j THEN "JSONDecodeError"
                ELSE IF ~stored THEN "HTTPException404"
                ELSE LET o == RenderCallOutcome(uploads[id], k)
                     IN  IF o = "ok" THEN "none" ELSE o
        IN  /\ uploads' = UploadsAfterRender(uploads, id, raised)
            /\ response' = [endpoint |-> "render-custom-timeline",
                            file_id |-> id, status |-> StatusOf(raised),
                            raised |-> raised, found |-> stored,
                            output |-> raised = "none" /\ w]
    /\ UNCHANGED << call, handles, opened, dirCreated, frame_count, kept,
                    kept_frames, written, enhanced, output_frame_count,
                    writer_fps, frames_data, timeline, result, error,
                    config_file, issued >>

\* ------------------------------------------------------- specification
Next ==
    \/ GetVideoInfo
    \/ ReduceFramesBegin
    \/ ReduceFramesIterate
    \/ ReduceFramesFinish
    \/ AuthenticBegin
    \/ AuthenticIterate
    \/ AuthenticFinish
    \/ ExtractBegin
    \/ ExtractIterate
    \/ ExtractFinish
    \/ RenderBegin
    \/ RenderIterate
    \/ RenderFinish
    \/ SaveTimelineConfig
    \/ LoadTimelineConfig
    \/ ExtractFramesRequest
    \/ RenderCustomTimelineRequest

Spec == Init /\ [][Next]_vars

\* ------------------------------------------------------------- claims
SamplingOps ==
    {"reduce_frames", "reduce_frames_authentic",
     "extract_frames_with_metadata"}

RateReducing ==
    \/ call.op = "reduce_frames"
    \/ call.op = "reduce_frames_authentic" /\ ~call.maintain_duration

Rendering == call.op = "render_custom_timing"

\* the multiples of r below n, in increasing order (r >= 1)
MultiplesBelow(r, n) == [i \in 1 .. CeilDiv(n, r) |-> (i - 1) * r]

\* how many out.write calls carry the frame of selected frame / entry k
WritesOf(k) == Cardinality({p \in DOMAIN written : written[p].entry = k})

\* the writes never go back to an earlier frame / entry: the copies of one
\* are consecutive and the frames keep their order
WritesInOrder ==
    \A p, q \in DOMAIN written : p < q => written[p].entry <= written[q].entry

\* entry i of the timeline is not deselected ('selected' true or missing)
Selected(i) == ~timeline[i].has_selected \/ timeline[i].selected

\* the source holds the frame that entry i of the timeline points at
Readable(i) ==
    timeline[i].original_frame >= 0 /\ timeline[i].original_frame < call.frames

\* the hold of entry i: its hold_duration, 2 when the key is missing
Hold(i) ==
    IF timeline[i].has_hold THEN timeline[i].hold_duration ELSE DefaultHold

\* every entry of the timeline satisfies the data model: both keys are
\* present and hold_duration >= 1
ValidTimeline ==
    \A i \in DOMAIN timeline :
        /\ timeline[i].has_hold
        /\ timeline[i].has_selected
        /\ timeline[i].hold_duration >= 1

\* the source has frames and the output writer opened
WellFormedRun == call.frames > 0 /\ call.writer_opens

RECURSIVE SumOver(_, _)
\* the sum of f[i] over the set S of integers
SumOver(f, S) ==
    IF S = {} THEN 0
    ELSE LET i == CHOOSE x \in S : TRUE IN f[i] + SumOver(f, S \ {i})

\* C1: for every reduction factor r >= 1 the sampling loops keep exactly
\* the multiples of r below the number of frames read, in increasing
\* order, so ceil(N / r) frames once all N frames of the source are read.
C1_SamplingKeepsMultiples ==
    (call.op \in SamplingOps /\ call.frame_reduction_factor >= 1) =>
        /\ kept = MultiplesBelow(call.frame_reduction_factor, frame_count)
        /\ kept_frames = CeilDiv(frame_count, call.frame_reduction_factor)
        /\ (pc = "done" => /\ frame_count = call.frames
                           /\ result.success
                           /\ kept_frames =
                                CeilDiv(call.frames,
                                        call.frame_reduction_factor))

C1_Witness ==
    /\ pc = "done"
    /\ call.op = "reduce_frames"
    /\ call.frame_reduction_factor = 2
    /\ call.frames = 5
    /\ kept = << 0, 2, 4 >>

\* C2, as claimed, on timelines that satisfy the data model, a source that
\* has frames and a writer that opened: when render_custom_timing has
\* finished, output_frames is the sum of hold_duration over the entries
\* whose selected flag is true, and that many frames were written.
C2_OutputIsSumOfSelectedHolds ==
    (Rendering /\ pc = "done" /\ ValidTimeline /\ WellFormedRun) =>
        /\ result.output_frames =
              SumOver([i \in DOMAIN timeline |-> timeline[i].hold_duration],
                      {i \in DOMAIN timeline : timeline[i].selected})
        /\ Len(OutStream) = result.output_frames

\* C2, amended: when render_custom_timing has finished, output_frames is
\* the sum, over the entries that are not deselected and whose
\* original_frame can be read from the source, of hold_duration (2 when the
\* key is missing, 0 when it is negative), and exactly that many out.write
\* calls were made.
C2_OutputIsSumOfRenderedHolds ==
    (Rendering /\ pc = "done") =>
        /\ result.output_frames =
              SumOver([i \in DOMAIN timeline |-> Max(Hold(i), 0)],
                      {i \in DOMAIN timeline : Selected(i) /\ Readable(i)})
        /\ Len(written) = result.output_frames
        /\ call.writer_opens => Len(OutStream) = result.output_frames

C2_Witness ==
    /\ Rendering
    /\ pc = "done"
    /\ Len(timeline) = 2
    /\ Selected(1) /\ ~Readable(1) /\ Hold(1) = 2
    /\ Selected(2) /\ Readable(2) /\ Hold(2) = 1
    /\ result.output_frames = 1

\* the frame of selected frame / entry k and the number of times it is held
\* in a duration-preserving render as the claim has it
HeldFrame(k) ==
    IF Rendering THEN timeline[k].original_frame ELSE kept[k]

HeldOrdinals == IF Rendering THEN DOMAIN timeline ELSE DOMAIN kept

DurationPreserving ==
    \/ Rendering
    \/ call.op = "reduce_frames_authentic" /\ call.maintain_duration

\* C3, as claimed, for reduction factors >= 1, timelines that satisfy the
\* data model, a source that has frames and a writer that opened: in a
\* duration-preserving render every selected frame is
\* written exactly holdDuration times (the reduction factor by default),
\* its copies are consecutive, the frames keep their order and the output
\* frame rate is the source frame rate.
C3_EachSelectedHeldHoldTimes ==
    (DurationPreserving /\ pc = "done" /\ ValidTimeline /\ WellFormedRun
       /\ call.frame_reduction_factor >= 1) =>
        /\ \A k \in HeldOrdinals :
              IF Rendering
              THEN timeline[k].selected =>
                       WritesOf(k) = timeline[k].hold_duration
              ELSE WritesOf(k) = call.frame_reduction_factor
        /\ WritesInOrder
        /\ \A p \in DOMAIN written :
              written[p].src = HeldFrame(written[p].entry)
        /\ writer_fps = Rat(call.fps)

\* C3, amended: in a duration-preserving render every selected frame that
\* could be read is written max(holdDuration, 0) times (holdDuration is the
\* reduction factor in reduce_frames_authentic, and the entry's
\* hold_duration, 2 when missing, in render_custom_timing); a timeline
\* entry that is deselected or whose frame cannot be read is written zero
\* times; the copies written for one kept frame or entry are consecutive,
\* they follow the order of the kept frames or of the timeline, and the
\* output frame rate is the source frame rate.
C3_EachReadableSelectedHeld ==
    (DurationPreserving /\ pc \in {"loop", "done"}) =>
        /\ \A k \in HeldOrdinals :
              WritesOf(k) =
                  IF Rendering
                  THEN (IF Selected(k) /\ Readable(k)
                        THEN Max(Hold(k), 0) ELSE 0)
                  ELSE Max(call.frame_reduction_factor, 0)
        /\ \A p \in DOMAIN written : written[p].entry \in HeldOrdinals
        /\ WritesInOrder
        /\ \A p \in DOMAIN written :
              written[p].src = HeldFrame(written[p].entry)
        /\ writer_fps = Rat(call.fps)
        /\ pc = "done" => result.original_fps = writer_fps

C3_Witness ==
    /\ Rendering
    /\ pc = "done"
    /\ call.frames = 2
    /\ Len(timeline) = 2
    /\ timeline[1].original_frame = 1 /\ Selected(1) /\ Hold(1) = 2
    /\ timeline[2].original_frame = 0 /\ Selected(2)
    /\ ~timeline[2].has_hold
    /\ [p \in DOMAIN written |-> written[p].src] = << 1, 1, 0, 0 >>
    /\ writer_fps = Rat(call.fps)

\* C4: in a rate-reducing render (reduce_frames, reduce_frames_authentic
\* with maintain_duration false) every kept frame is written exactly once,
\* in order, the reported output frame count is the kept frame count, and
\* the rate of the output is the source rate divided by the reduction
\* factor.
C4_RateReducingWritesOnce ==
    (RateReducing /\ pc \in {"loop", "done"}) =>
        /\ Len(written) = Len(kept)
        /\ \A i \in DOMAIN kept :
              written[i].src = kept[i] /\ written[i].entry = i
        /\ writer_fps[2] # 0
        /\ writer_fps[1] * call.frame_reduction_factor
              = call.fps * writer_fps[2]
        /\ pc = "done" =>
              /\ result.kept_frames = Len(written)
              /\ IF call.op = "reduce_frames"
                 THEN result.new_fps = writer_fps
                 ELSE /\ result.output_frames = result.kept_frames
                      /\ result.output_fps = writer_fps

C4_Witness ==
    /\ call.op = "reduce_frames"
    /\ pc = "done"
    /\ call.frame_reduction_factor = 3
    /\ call.frames = 5
    /\ call.fps = 30
    /\ Len(written) = 2
    /\ result.new_fps = << 10, 1 >>

\* C5, on a source that has frames at a rate > 0, an output path with a
\* directory part and a writer that opens: a sampling or render call with
\* a reduction factor < 1 fails before any work is done: no stream handle
\* is opened, no output directory or file is created, no frame is read or
\* written.
C5_FactorBelowOneRejected ==
    (call.op \in SamplingOps /\ call.frame_reduction_factor < 1
       /\ call.input = "ok" /\ call.fps > 0 /\ call.has_dir
       /\ WellFormedRun) =>
        /\ pc = "raised"
        /\ opened = {}
        /\ ~dirCreated
        /\ frame_count = 0
        /\ written = << >>

\* C6: in render_custom_timing a selected entry whose frame cannot be read
\* adds no output frame, the render goes on without raising, and every
\* later selected entry whose frame can be read is written with its own
\* hold duration.
C6_UnreadableEntrySkipped ==
    Rendering =>
        /\ \A i \in DOMAIN timeline :
              (Selected(i) /\ ~Readable(i)) =>
                  /\ WritesOf(i) = 0
                  /\ \A j \in DOMAIN timeline :
                        (j > i /\ Selected(j) /\ Readable(j)) =>
                            WritesOf(j) = Max(Hold(j), 0)
        /\ (timeline # << >> /\ call.fps # 0) =>
              pc \in {"loop", "done"} /\ error = "none"
        /\ pc = "done" => result.original_frames = Len(timeline)

C6_Witness ==
    /\ Rendering
    /\ pc = "done"
    /\ Len(timeline) = 2
    /\ Selected(1) /\ ~Readable(1) /\ Hold(1) = 1
    /\ Selected(2) /\ Readable(2) /\ Hold(2) = 2
    /\ Len(written) = 2
    /\ result.success

\* C7, for reduction factors >= 1: when the output stream could not be
\* opened, so that the frames handed to out.write do not reach it, a
\* render never returns a result that reports success.
C7_FailedWriterNeverSucceeds ==
    (call.op \in {"reduce_frames", "reduce_frames_authentic",
                  "render_custom_timing"}
       /\ call.frame_reduction_factor >= 1
       /\ "out" \in opened /\ ~call.writer_opens /\ written # << >>) =>
        ~(pc = "done" /\ result.success)

\* C8: when a call has ended, by returning or by raising, every stream
\* handle it opened has been released.
C8_HandlesReleasedOnExit == pc \in {"done", "raised"} => handles = {}

\* C9: in render_custom_timing an entry with selected = false adds no
\* output frame whatever its hold_duration, and what is written follows
\* the order of the timeline.
C9_DeselectedAddsNothing ==
    Rendering =>
        /\ \A i \in DOMAIN timeline :
              (timeline[i].has_selected /\ ~timeline[i].selected) =>
                  WritesOf(i) = 0
        /\ WritesInOrder
        /\ \A p \in DOMAIN written :
              /\ written[p].entry \in DOMAIN timeline
              /\ written[p].src = timeline[written[p].entry].original_frame

C9_Witness ==
    /\ Rendering
    /\ pc = "done"
    /\ Len(timeline) = 2
    /\ timeline[1].has_selected /\ ~timeline[1].selected
    /\ Readable(1) /\ Hold(1) = 2
    /\ Selected(2) /\ Readable(2) /\ Hold(2) = 1
    /\ Len(written) = 1

\* C10: a timeline entry with a hold_duration < 1 is rejected: a render of
\* a timeline that holds one (selected, its frame in the source) never
\* returns a result.
C10_HoldBelowOneRejected ==
    (Rendering /\ WellFormedRun
       /\ \E i \in DOMAIN timeline :
             /\ timeline[i].has_hold /\ timeline[i].hold_duration < 1
             /\ timeline[i].has_selected /\ timeline[i].selected
             /\ Readable(i)) =>
        pc # "done"

C12_OneEntryPerKeptFrame ==
    (call.op = "extract_frames_with_metadata"
       /\ call.frame_reduction_factor >= 1) =>
        /\ Len(frames_data) = Len(kept)
        /\ Len(frames_data) = kept_frames
        /\ \A i \in DOMAIN frames_data :
              /\ frames_data[i].index = i - 1
              /\ frames_data[i].original_frame = kept[i]
              /\ frames_data[i].original_frame =
                    frames_data[i].index * call.frame_reduction_factor
              /\ frames_data[i].hold_duration = call.frame_reduction_factor
              /\ frames_data[i].selected = TRUE
        /\ \A i, j \in DOMAIN frames_data :
              i < j => frames_data[i].original_frame
                          < frames_data[j].original_frame
        /\ pc = "done" =>
              /\ result.frames = frames_data
              /\ result.extracted_frames = Len(frames_data)
              /\ Len(frames_data) =
                    CeilDiv(call.frames, call.frame_reduction_factor)

\* an extraction of a source whose length is not a multiple of the factor
\* returned three entries
C12_Witness ==
    /\ call.op = "extract_frames_with_metadata"
    /\ pc = "done"
    /\ call.frame_reduction_factor = 2
    /\ call.frames = 5
    /\ Len(result.frames) = 3
    /\ result.frames[3].original_frame = 4

\* every entry of the timeline carries a hold_duration, none negative
HoldsPresent ==
    \A i \in DOMAIN timeline :
        timeline[i].has_hold /\ timeline[i].hold_duration >= 0

\* C13: the timeline summary reports total_frames = the number of entries
\* and total_hold_duration = the sum of hold_duration over all entries,
\* selected or not (in the result of an extraction, and for the timeline a
\* render is given); so when some entry of the rendered timeline is
\* deselected with a hold >= 1, the summary total is strictly greater than
\* the number of frames the render emits.
C13_SummaryCountsEveryEntry ==
    /\ (call.op = "extract_frames_with_metadata" /\ pc = "done") =>
          /\ result.timeline_data.total_frames = Len(frames_data)
          /\ result.timeline_data.total_hold_duration =
                SumOver([i \in DOMAIN frames_data |->
                            frames_data[i].hold_duration],
                        DOMAIN frames_data)
    /\ (Rendering /\ HoldsPresent) =>
          LET summary == GenerateTimelineData(timeline)
          IN  /\ summary.total_frames = Len(timeline)
              /\ summary.total_hold_duration =
                    SumOver([i \in DOMAIN timeline |->
                                timeline[i].hold_duration],
                            DOMAIN timeline)
              /\ summary.total_hold_duration >= output_frame_count
              /\ (\E i \in DOMAIN timeline :
                     ~Selected(i) /\ timeline[i].hold_duration >= 1) =>
                    /\ summary.total_hold_duration > output_frame_count
                    /\ summary.total_hold_duration > Len(OutStream)
                    /\ pc = "done" =>
                          summary.total_hold_duration > result.output_frames

\* a finished render of a deselected entry with hold 2 and a selected,
\* readable entry with hold 1: the summary says 3, the render emitted 1
C13_Witness ==
    /\ Rendering
    /\ pc = "done"
    /\ WellFormedRun
    /\ ValidTimeline
    /\ Len(timeline) = 2
    /\ ~timeline[1].selected /\ timeline[1].hold_duration = 2
    /\ timeline[2].selected /\ timeline[2].hold_duration = 1 /\ Readable(2)
    /\ GenerateTimelineData(timeline).total_hold_duration = 3
    /\ result.output_frames = 1

\* a reduce_frames or reduce_frames_authentic call that has ended, on a
\* source that opened with a positive frame rate, with a factor r >= 1, an
\* output directory and a writer that opened
FinishedReduction ==
    /\ call.op \in {"reduce_frames", "reduce_frames_authentic"}
    /\ pc \in {"done", "raised"}
    /\ call.input = "ok"
    /\ call.fps > 0
    /\ call.frame_reduction_factor >= 1
    /\ call.has_dir
    /\ call.writer_opens
    /\ call.out_exists

\* C14: when the source frame count N is a multiple of the reduction
\* factor r, both policies report an output duration equal to the source
\* duration N / fps: the duration-preserving render reports N output
\* frames at rate fps, the rate-reducing render N / r frames at fps / r.
C14_MultipleKeepsDuration ==
    (FinishedReduction /\ call.frames % call.frame_reduction_factor = 0) =>
        /\ pc = "done"
        /\ result.new_duration = Frac(call.frames, call.fps)
        /\ IF RateReducing
           THEN /\ result.kept_frames =
                      call.frames \div call.frame_reduction_factor
                /\ Len(OutStream) = result.kept_frames
                /\ writer_fps = Frac(call.fps, call.frame_reduction_factor)
           ELSE /\ result.output_frames = call.frames
                /\ Len(OutStream) = call.frames
                /\ result.output_fps = Rat(call.fps)

\* a < b for two rationals with positive denominators
RatLess(a, b) == a[1] * b[2] < b[1] * a[2]

\* C15: under the rate-reducing (classic) policy the reported new_duration
\* of reduce_frames is the original duration divided by the reduction
\* factor, hence strictly shorter than the original for every r >= 2 (on a
\* source that has frames).
C15_ClassicDurationShrinks ==
    (FinishedReduction /\ call.op = "reduce_frames" /\ pc = "done"
       /\ call.frames > 0 /\ call.frame_reduction_factor >= 2) =>
        /\ result.new_duration =
              RDiv(result.original_duration, Rat(call.frame_reduction_factor))
        /\ RatLess(result.new_duration, result.original_duration)

\* C16: for every N >= 0 and r >= 1, a duration-preserving render with
\* default holds returns a result whose new_duration equals
\* output_frames / output_fps, and both equal the original duration
\* N / fps.
C16_PreservedRuntimeIsExact ==
    (FinishedReduction /\ call.op = "reduce_frames_authentic"
       /\ call.maintain_duration) =>
        /\ pc = "done"
        /\ result.new_duration =
              RDiv(Rat(result.output_frames), result.output_fps)
        /\ result.new_duration = Frac(call.frames, call.fps)

\* C17: with every hold defaulted to the reduction factor r >= 1 and every
\* kept frame selected, the duration-preserving render has written
\* ceil(N / r) * r frames once the source is read: never fewer than N,
\* fewer than N + r, and exactly N when and only when r divides N.
C17_PreservingCountRoundsUp ==
    (call.op = "reduce_frames_authentic" /\ call.maintain_duration
       /\ call.input = "ok" /\ call.fps > 0 /\ call.has_dir
       /\ call.frame_reduction_factor >= 1
       /\ pc \in {"done", "raised"}) =>
        LET N == call.frames
            r == call.frame_reduction_factor
        IN  /\ output_frame_count = CeilDiv(N, r) * r
            /\ Len(written) = output_frame_count
            /\ call.writer_opens => Len(OutStream) = output_frame_count
            /\ N <= output_frame_count
            /\ output_frame_count < N + r
            /\ output_frame_count = N <=> N % r = 0
            /\ pc = "done" => result.output_frames = output_frame_count

\* five frames held three times each: six frames written
C17_Witness ==
    /\ call.op = "reduce_frames_authentic"
    /\ call.maintain_duration
    /\ pc = "done"
    /\ call.writer_opens
    /\ call.frames = 5
    /\ call.frame_reduction_factor = 3
    /\ result.output_frames = 6
    /\ Len(OutStream) = 6

\* C18: a degenerate source never causes a division error: on a source of
\* 0 frames get_video_info, extract_frames_with_metadata, reduce_frames
\* and reduce_frames_authentic complete, with a kept count of 0 and an
\* output count of 0, and on a source that reports a frame rate of 0 the
\* duration they compute is 0 (reduction factor >= 1, the output
\* directory and the output file exist).
C18_DegenerateSourcesComplete ==
    (call.op \in {"get_video_info", "extract_frames_with_metadata",
                  "reduce_frames", "reduce_frames_authentic"}
       /\ call.input = "ok"
       /\ (call.frames = 0 \/ call.fps = 0)
       /\ call.frame_reduction_factor >= 1
       /\ call.has_dir /\ call.out_exists) =>
        /\ error # "ZeroDivisionError"
        /\ pc # "raised"
        /\ (pc = "done" /\ call.frames = 0) =>
              kept_frames = 0 /\ output_frame_count = 0 /\ written = << >>
        /\ (pc = "done" /\ call.fps = 0) =>
              IF call.op \in {"reduce_frames", "reduce_frames_authentic"}
              THEN result.original_duration = Rat(0)
              ELSE result.duration = Rat(0)

\* the product of two rationals
RatTimes(a, b) == Frac(a[1] * b[1], a[2] * b[2])

\* C19: in every result of reduce_frames_authentic, with maintain_duration
\* true or false, new_fps is kept_frames / new_duration (new_fps times
\* new_duration is kept_frames, which also covers a duration of 0) and is
\* reported under its own key, next to the container rate output_fps the
\* writer was opened with.
C19_EffectiveRateIsKeptOverDuration ==
    (call.op = "reduce_frames_authentic" /\ pc = "done") =>
        /\ {"new_fps", "output_fps", "kept_frames", "new_duration"}
              \subseteq DOMAIN result
        /\ result.kept_frames = Len(kept)
        /\ result.output_fps = writer_fps
        /\ RatTimes(result.new_fps, result.new_duration)
              = Rat(result.kept_frames)
        /\ result.new_duration[1] # 0 =>
              result.new_fps =
                 Frac(result.kept_frames * result.new_duration[2],
                      result.new_duration[1])

\* five frames, every second one held twice: 3 kept frames over 5/24 s is
\* an effective rate of 72/5 in a container of rate 24
C19_Witness ==
    /\ call.op = "reduce_frames_authentic"
    /\ pc = "done"
    /\ call.maintain_duration
    /\ call.frames = 5
    /\ call.fps = 24
    /\ call.frame_reduction_factor = 2
    /\ result.kept_frames = 3
    /\ result.new_fps = << 72, 5 >>
    /\ result.output_fps = << 24, 1 >>

\* C20: in every render path (reduce_frames, reduce_frames_authentic,
\* render_custom_timing) each selected frame is enhanced exactly once,
\* before it is duplicated, and every frame written to the output is the
\* enhanced one: no path writes an un-enhanced frame or enhances per copy
\* (reduction factor >= 1, a source that has frames and a positive rate,
\* a writer that opened, a timeline that satisfies the data model).
C20_EnhancedOnceBeforeCopies ==
    (call.op \in {"reduce_frames", "reduce_frames_authentic",
                  "render_custom_timing"}
       /\ call.frame_reduction_factor >= 1
       /\ call.fps > 0
       /\ WellFormedRun
       /\ ValidTimeline) =>
        /\ \A p \in DOMAIN written : written[p].enhanced
        /\ \A k \in HeldOrdinals :
              WritesOf(k) > 0 =>
                 Cardinality({q \in DOMAIN enhanced :
                                 enhanced[q] = HeldFrame(k)}) >= 1
        /\ ~Rendering => enhanced = kept

\* the step is a request answered by the web application
Served == pc' = "serving"

\* the step answered a /render-custom-timeline request for file_id id
RenderAnswered(id) ==
    /\ Served
    /\ response'.endpoint = "render-custom-timeline"
    /\ response'.file_id = id

\* the render answered in this step succeeded: it was answered with 200
\* and its frames reached the output file
RenderSucceeded == response'.status = 200 /\ response'.output

\* C21: across any sequence of /extract-frames and /render-custom-timeline
\* requests, for every file_id: a successful extraction stores the
\* uploaded source and it stays stored until a render of it succeeds; a
\* render that fails leaves the source in place; a render that succeeds
\* removes the source, which never comes back, and a render of a file_id
\* without a stored source fails; a failed extraction leaves no stored
\* source.
C21_SourceLifecycle ==
    [][Served =>
         /\ (response'.endpoint = "extract-frames"
               /\ response'.status = 200) =>
               /\ response'.file_id = issued + 1
               /\ uploads'[response'.file_id] # NoUpload
         /\ (response'.endpoint = "extract-frames"
               /\ response'.status # 200) =>
               /\ uploads' = uploads
               /\ response'.file_id \in FileIds =>
                     uploads'[response'.file_id] = NoUpload
         /\ \A id \in FileIds :
               /\ (RenderAnswered(id) /\ ~RenderSucceeded) =>
                     uploads' = uploads
               /\ (RenderAnswered(id) /\ RenderSucceeded) =>
                     uploads[id] # NoUpload /\ uploads'[id] = NoUpload
               /\ (RenderAnswered(id) /\ uploads[id] = NoUpload) =>
                     ~RenderSucceeded
               /\ (uploads[id] # NoUpload
                     /\ ~(RenderAnswered(id) /\ RenderSucceeded)) =>
                     uploads'[id] = uploads[id]
               /\ (id <= issued /\ uploads[id] = NoUpload) =>
                     uploads'[id] = NoUpload
    ]_vars

\* C22: a /render-custom-timeline request whose timeline_data parses and
\* whose file_id matches no stored upload is answered with status 404
\* ('Original file not found'), not with the 500 of a processing failure.
C22_MissingUploadAnswered404 ==
    (response.endpoint = "render-custom-timeline"
       /\ ~response.found
       /\ response.raised # "JSONDecodeError") =>
        response.status = 404

=============================================================================
